---- MODULE Spec2Model ----
(***************************************************************************)
(* Extension status tracker of w3ux/library: the ExtensionsProvider React  *)
(* component (react-connect-kit), the setStateWithRef helper (utils) and   *)
(* the static extension registry (extension-assets).                       *)
(*                                                                         *)
(* React is modelled by what it does to this component: a useState value   *)
(* has the value the latest render read (checkingInjectedWeb3,             *)
(* extensionsStatus) and the value queued by the setter for the next       *)
(* render (pendingChecking, pendingStatus); a useRef value is written and  *)
(* read synchronously; an effect with no dependency array runs its         *)
(* previous cleanup and then its body after every render.                  *)
(***************************************************************************)
EXTENDS Naturals, FiniteSets, TLC

VARIABLES
    lifecycle,                \* "rendered" (first render done, effects not yet run) | "mounted" | "unmounted"
    polkaGateSnapEnabled,     \* useState(options?.polkagateSnapEnabled || false)
    checkingInjectedWeb3,     \* useState(true): the value the latest render read
    pendingChecking,          \* the value setCheckingInjectedWeb3 queued for the next render
    checkingInjectedWeb3Ref,  \* useRef(checkingInjectedWeb3)
    intervalInitialisedRef,   \* useRef(false)
    extensionsStatus,         \* useState({}): the value the latest render read
    pendingStatus,            \* the value setExtensionsStatus queued for the next render
    extensionsStatusRef,      \* useRef(extensionsStatus)
    ctxExtensionsStatus,      \* the context value's extensionsStatus, taken at render
    injectCounter,            \* useRef(0)
    activeTimers,             \* handles of the setInterval timers started and not cleared
    timersStarted,            \* number of setInterval calls made
    injectedWeb3Interval,     \* `let injectedWeb3Interval` of the latest render's closure
    probe,                    \* web3Enable("snap_only") under withTimeout: "none" | "pending" | its outcome
    probeCount,               \* number of web3Enable calls made
    setCheckingCalls,         \* number of setStateWithRef(false, setCheckingInjectedWeb3, ..) calls
    unhandledRejection,       \* handleSnapInjection's promise rejected
    lastCall,                 \* the consumer's last call through the context, with its result
    lateSettled,              \* web3Enable's promise settled after withTimeout had timed out
    refIsExposed,             \* extensionsStatusRef.current is the very object the latest render exposed
    expectedStatus,           \* every status operation so far applied in call order to {}
    snapshotTaken,            \* a consumer keeps the extensionsStatus object of some context value
    snapshot,                 \* that object's contents
    snapshotIsRef             \* that object is extensionsStatusRef.current

vars == <<lifecycle, polkaGateSnapEnabled, checkingInjectedWeb3, pendingChecking,
          checkingInjectedWeb3Ref, intervalInitialisedRef, extensionsStatus,
          pendingStatus, extensionsStatusRef, ctxExtensionsStatus, injectCounter,
          activeTimers, timersStarted, injectedWeb3Interval, probe, probeCount,
          setCheckingCalls, unhandledRejection, lastCall, lateSettled,
          refIsExposed, expectedStatus, snapshotTaken, snapshot, snapshotIsRef>>

\* The consumer's kept snapshot.
snapshotVars == <<snapshotTaken, snapshot, snapshotIsRef>>

----------------------------------------------------------------------------
(* Program constants. The interval (300ms) and the probe's timeout (500ms) are *)
(* not modelled as durations: a tick is one firing of the timer, and the       *)
(* timeout is one of the probe's outcomes.                                     *)

\* const totalChecks = 10
totalChecks == 10

----------------------------------------------------------------------------
(* The registry: export const Extensions: Record<string, ExtensionConfig> *)

Wildcard == [kind |-> "string", str |-> "*", items |-> {}]

FeatureList(S) == [kind |-> "array", str |-> "", items |-> S]

Entry(category, features) == [category |-> category, features |-> features]

Extensions ==
    ("enkrypt" :> Entry("web-extension", Wildcard))
    @@ ("fearless-wallet" :> Entry("web-extension", Wildcard))
    @@ ("metamask-polkadot-snap" :>
            Entry("web-extension", FeatureList({"getAccounts", "signer"})))
    @@ ("polkagate" :> Entry("web-extension", Wildcard))
    @@ ("subwallet-js" :> Entry("web-extension", Wildcard))
    @@ ("talisman" :> Entry("web-extension", Wildcard))
    @@ ("polkadot-js" :> Entry("web-extension", Wildcard))
    @@ ("nova-wallet" :> Entry("web-extension", Wildcard))
    @@ ("ledger" :> Entry("hardware", FeatureList({})))
    @@ ("polkadotvault" :> Entry("hardware", FeatureList({})))
    @@ ("walletconnect" :> Entry("hardware", FeatureList({})))

\* Object.keys(Extensions)
RegistryIds == DOMAIN Extensions

----------------------------------------------------------------------------
(* Inputs of the consumer's calls *)

\* An id that is no key of the registry.
UnknownId == "unknown-wallet"

\* Ids the consumer passes to the status operations and queries.
StatusIds == {"talisman", UnknownId}

\* ExtensionStatus values the consumer passes.
Statuses == {"installed", "connected"}

\* Ids and features the consumer passes to extensionHasFeature.
FeatureIds == RegistryIds \cup {UnknownId}

\* Feature names the consumer may ask about: the three the registry's consumers
\* know and a string that is none of them.
FeaturePool == <<"getAccounts", "signer", "subscribeAccounts", "unknown-feature">>

\* Number of feature names of FeaturePool the consumer asks about.
MaxFeatures == 3

Features == {FeaturePool[i] : i \in 1..MaxFeatures}

\* Outcomes of web3Enable("snap_only") raced against the timeout.
ProbeOutcomes == {"resolved", "rejected", "timeout"}

----------------------------------------------------------------------------
(* Record<string, ExtensionStatus> as a function on its own keys *)

EmptyMap == [k \in {} |-> "installed"]

\* { ...m, [id]: status }
Put(m, id, status) ==
    [k \in (DOMAIN m) \cup {id} |-> IF k = id THEN status ELSE m[k]]

\* const n = { ...m }; delete n[id]
Delete(m, id) == [k \in (DOMAIN m) \ {id} |-> m[k]]

\* m[id], undefined for a missing key
Get(m, id) == IF id \in DOMAIN m THEN m[id] ELSE "undefined"

NoCall == [op |-> "none", id |-> "", arg |-> "", result |-> "", before |-> EmptyMap]

----------------------------------------------------------------------------
(* React and the timer API, as far as this component uses them *)

\* setState(value): queued for the next render; React drops the update of an
\* unmounted component.
setState(value, queued) == IF lifecycle = "unmounted" THEN queued ELSE value

\* clearInterval(handle): cancels that timer; clearInterval(undefined) does nothing.
\* The handle 0 is `undefined`.
clearInterval(handle, timers) == timers \ {handle}

\* setInterval(...) returns a handle no earlier call returned.
NewHandle == timersStarted + 1

----------------------------------------------------------------------------
(* withTimeout(ms, promise) of @w3ux/utils: how the awaited expression ends *)
(* for each outcome of the probe.                                           *)

withTimeout(outcome) == "fulfilled"

----------------------------------------------------------------------------
(* Queries of the context value *)

\* extensionsStatus[id] !== undefined
extensionInstalled(id) == Get(extensionsStatus, id) # "undefined"

\* extensionInstalled(id) && extensionsStatus[id] !== "connected"
extensionCanConnect(id) ==
    extensionInstalled(id) /\ Get(extensionsStatus, id) # "connected"

\* Mutant: the wildcard test is dropped, only features.includes(feature) is left
\* ("*".includes(feature) is false for every feature name).
extensionHasFeatureNoWildcard(id, feature) ==
    IF id \notin DOMAIN Extensions
    THEN "TypeError"
    ELSE IF feature \in Extensions[id].features.items THEN "true" ELSE "false"

\* const { features } = extensions[id] throws a TypeError when extensions[id] is
\* undefined; otherwise features === "*" || features.includes(feature).
extensionHasFeature(id, feature) ==
    IF id \notin DOMAIN Extensions
    THEN "TypeError"
    ELSE LET features == Extensions[id].features
         IN  IF (features.kind = "string" /\ features.str = "*")
                \/ (features.kind = "array" /\ feature \in features.items)
             THEN "true"
             ELSE "false"

Bool(b) == IF b THEN "true" ELSE "false"

----------------------------------------------------------------------------
(* The state after construction: the first render is done, its effect has  *)
(* not run yet.                                                            *)

Init ==
    /\ lifecycle = "rendered"
    /\ polkaGateSnapEnabled \in BOOLEAN
    /\ checkingInjectedWeb3 = TRUE
    /\ pendingChecking = TRUE
    /\ checkingInjectedWeb3Ref = TRUE
    /\ intervalInitialisedRef = FALSE
    /\ extensionsStatus = EmptyMap
    /\ pendingStatus = EmptyMap
    /\ extensionsStatusRef = EmptyMap
    /\ ctxExtensionsStatus = EmptyMap
    /\ injectCounter = 0
    /\ activeTimers = {}
    /\ timersStarted = 0
    /\ injectedWeb3Interval = 0
    /\ probe = "none"
    /\ probeCount = 0
    /\ setCheckingCalls = 0
    /\ unhandledRejection = FALSE
    /\ lastCall = NoCall
    /\ lateSettled = FALSE
    /\ refIsExposed = TRUE
    /\ expectedStatus = EmptyMap
    /\ snapshotTaken = FALSE
    /\ snapshot = EmptyMap
    /\ snapshotIsRef = FALSE

----------------------------------------------------------------------------
(* The detection window *)

\* setStateWithRef(false, setCheckingInjectedWeb3, checkingInjectedWeb3Ref)
FinishChecking ==
    /\ pendingChecking' = setState(FALSE, pendingChecking)
    /\ checkingInjectedWeb3Ref' = FALSE
    /\ setCheckingCalls' = setCheckingCalls + 1

\* Mutant: the probe is issued whatever polkaGateSnapEnabled says.
handleSnapInjectionAlwaysProbes ==
    /\ probe' = "pending"
    /\ probeCount' = probeCount + 1
    /\ UNCHANGED <<pendingChecking, checkingInjectedWeb3Ref, setCheckingCalls>>

\* handleSnapInjection up to its first await: with the snap enabled the probe is
\* issued and the function suspends; otherwise it runs to its end.
handleSnapInjection ==
    IF polkaGateSnapEnabled
    THEN /\ probe' = "pending"
         /\ probeCount' = probeCount + 1
         /\ UNCHANGED <<pendingChecking, checkingInjectedWeb3Ref, setCheckingCalls>>
    ELSE /\ FinishChecking
         /\ UNCHANGED <<probe, probeCount>>

\* Mutant: the timer is left running when the probe phase starts.
handleClearIntervalNoClear(handle) ==
    /\ UNCHANGED activeTimers
    /\ handleSnapInjection

\* handleClearInterval, called by the callback of the timer `handle`: the closure's
\* injectedWeb3Interval is the handle the same effect run assigned.
handleClearInterval(handle) ==
    /\ activeTimers' = clearInterval(handle, activeTimers)
    /\ handleSnapInjection

\* Mutant: the bound is tested with >= and the timer is cleared through a stale
\* (undefined) handle, so the callback keeps firing past the bound.
TickStaleHandle(t) ==
    /\ t \in activeTimers
    /\ injectCounter' = injectCounter + 1
    /\ IF injectCounter' >= totalChecks
       THEN /\ activeTimers' = clearInterval(0, activeTimers)
            /\ handleSnapInjection
       ELSE UNCHANGED <<activeTimers, probe, probeCount, pendingChecking,
                        checkingInjectedWeb3Ref, setCheckingCalls>>
    /\ UNCHANGED <<lifecycle, polkaGateSnapEnabled, checkingInjectedWeb3,
                   intervalInitialisedRef, extensionsStatus, pendingStatus,
                   extensionsStatusRef, ctxExtensionsStatus, timersStarted,
                   injectedWeb3Interval, unhandledRejection, lastCall,
                   lateSettled, refIsExposed, expectedStatus, snapshotVars>>

\* Mutant: the bound is compared with the counter before the increment is counted,
\* so the window ends one tick early.
TickOffByOne(t) ==
    /\ t \in activeTimers
    /\ injectCounter' = injectCounter + 1
    /\ IF injectCounter' = totalChecks - 1
       THEN handleClearInterval(t)
       ELSE UNCHANGED <<activeTimers, probe, probeCount, pendingChecking,
                        checkingInjectedWeb3Ref, setCheckingCalls>>
    /\ UNCHANGED <<lifecycle, polkaGateSnapEnabled, checkingInjectedWeb3,
                   intervalInitialisedRef, extensionsStatus, pendingStatus,
                   extensionsStatusRef, ctxExtensionsStatus, timersStarted,
                   injectedWeb3Interval, unhandledRejection, lastCall,
                   lateSettled, refIsExposed, expectedStatus, snapshotVars>>

\* The setInterval callback of timer t.
Tick(t) ==
    /\ t \in activeTimers
    /\ injectCounter' = injectCounter + 1
    /\ IF injectCounter' = totalChecks
       THEN handleClearInterval(t)
       ELSE UNCHANGED <<activeTimers, probe, probeCount, pendingChecking,
                        checkingInjectedWeb3Ref, setCheckingCalls>>
    /\ UNCHANGED <<lifecycle, polkaGateSnapEnabled, checkingInjectedWeb3,
                   intervalInitialisedRef, extensionsStatus, pendingStatus,
                   extensionsStatusRef, ctxExtensionsStatus, timersStarted,
                   injectedWeb3Interval, unhandledRejection, lastCall,
                   lateSettled, refIsExposed, expectedStatus, snapshotVars>>

\* Mutant: the flag is cleared only when the probe resolves (a .then() without a
\* .finally()); a rejection or a timeout leaves the function suspended.
SnapProbeSettlesResolvedOnly(outcome) ==
    /\ probe = "pending"
    /\ probe' = outcome
    /\ IF outcome = "resolved"
       THEN FinishChecking
       ELSE UNCHANGED <<pendingChecking, checkingInjectedWeb3Ref, setCheckingCalls>>
    /\ UNCHANGED <<lifecycle, polkaGateSnapEnabled, checkingInjectedWeb3,
                   intervalInitialisedRef, extensionsStatus, pendingStatus,
                   extensionsStatusRef, ctxExtensionsStatus, injectCounter,
                   activeTimers, timersStarted, injectedWeb3Interval, probeCount,
                   unhandledRejection, lastCall,
                   lateSettled, refIsExposed, expectedStatus, snapshotVars>>

\* The awaited withTimeout(500, web3Enable("snap_only")) ends and handleSnapInjection
\* resumes: after a fulfilled await it runs setStateWithRef(false, ...); a rejected
\* await throws out of the async function, whose promise nobody handles.
SnapProbeSettles(outcome) ==
    /\ probe = "pending"
    /\ probe' = outcome
    /\ IF withTimeout(outcome) = "fulfilled"
       THEN FinishChecking /\ UNCHANGED unhandledRejection
       ELSE /\ unhandledRejection' = TRUE
            /\ UNCHANGED <<pendingChecking, checkingInjectedWeb3Ref, setCheckingCalls>>
    /\ UNCHANGED <<lifecycle, polkaGateSnapEnabled, checkingInjectedWeb3,
                   intervalInitialisedRef, extensionsStatus, pendingStatus,
                   extensionsStatusRef, ctxExtensionsStatus, injectCounter,
                   activeTimers, timersStarted, injectedWeb3Interval, probeCount,
                   lastCall, lateSettled, refIsExposed,
                   expectedStatus, snapshotVars>>

\* Mutant: a result that arrives after the timeout still registers the snap's
\* status.
ProbeSettlesLateRegisters ==
    /\ probe = "timeout"
    /\ ~lateSettled
    /\ lateSettled' = TRUE
    /\ extensionsStatusRef' =
            Put(extensionsStatusRef, "metamask-polkadot-snap", "installed")
    /\ pendingStatus' = setState(extensionsStatusRef', pendingStatus)
    /\ UNCHANGED <<lifecycle, polkaGateSnapEnabled, checkingInjectedWeb3,
                   pendingChecking, checkingInjectedWeb3Ref, intervalInitialisedRef,
                   injectCounter, activeTimers, timersStarted, injectedWeb3Interval,
                   probe, probeCount, setCheckingCalls, unhandledRejection,
                   extensionsStatus, ctxExtensionsStatus, lastCall, refIsExposed,
                   expectedStatus, snapshotVars>>

\* web3Enable("snap_only") settles after withTimeout has already timed out: the
\* race is over and handleSnapInjection attached nothing else to the promise.
ProbeSettlesLate ==
    /\ probe = "timeout"
    /\ ~lateSettled
    /\ lateSettled' = TRUE
    /\ UNCHANGED <<lifecycle, polkaGateSnapEnabled, checkingInjectedWeb3,
                   pendingChecking, checkingInjectedWeb3Ref, intervalInitialisedRef,
                   injectCounter, activeTimers, timersStarted, injectedWeb3Interval,
                   probe, probeCount, setCheckingCalls, unhandledRejection,
                   extensionsStatus, pendingStatus, extensionsStatusRef,
                   ctxExtensionsStatus, lastCall, refIsExposed, expectedStatus,
                   snapshotVars>>

----------------------------------------------------------------------------
(* Rendering and the effect *)

\* Mutant: the effect does not test intervalInitialisedRef and starts a timer on
\* every run.
useEffectNoGuard(timers) ==
    /\ intervalInitialisedRef' = TRUE
    /\ injectedWeb3Interval' = NewHandle
    /\ timersStarted' = timersStarted + 1
    /\ activeTimers' = timers \cup {NewHandle}

\* The body of the useEffect, run with the timers its previous cleanup left: starts
\* the timer unless intervalInitialisedRef is set. A render's injectedWeb3Interval
\* is undefined (0) unless its own effect run assigns it.
useEffect(timers) ==
    IF ~intervalInitialisedRef
    THEN /\ intervalInitialisedRef' = TRUE
         /\ injectedWeb3Interval' = NewHandle
         /\ timersStarted' = timersStarted + 1
         /\ activeTimers' = timers \cup {NewHandle}
    ELSE /\ injectedWeb3Interval' = 0
         /\ activeTimers' = timers
         /\ UNCHANGED <<intervalInitialisedRef, timersStarted>>

\* The effect of the first render runs.
Mount ==
    /\ lifecycle = "rendered"
    /\ lifecycle' = "mounted"
    /\ useEffect(activeTimers)
    /\ UNCHANGED <<polkaGateSnapEnabled, checkingInjectedWeb3, pendingChecking,
                   checkingInjectedWeb3Ref, extensionsStatus, pendingStatus,
                   extensionsStatusRef, ctxExtensionsStatus, injectCounter, probe,
                   probeCount, setCheckingCalls, unhandledRejection, lastCall,
                   lateSettled, refIsExposed, expectedStatus, snapshotVars>>

\* A re-render (a queued state update, or the parent re-rendering): useState returns
\* the queued values, the context value takes extensionsStatusRef.current, the
\* previous render's cleanup runs clearInterval(injectedWeb3Interval) and the effect
\* runs again.
Rerender ==
    /\ lifecycle = "mounted"
    /\ checkingInjectedWeb3' = pendingChecking
    /\ extensionsStatus' = pendingStatus
    /\ ctxExtensionsStatus' = extensionsStatusRef
    /\ refIsExposed' = TRUE
    /\ useEffect(clearInterval(injectedWeb3Interval, activeTimers))
    /\ UNCHANGED <<lifecycle, polkaGateSnapEnabled, pendingChecking,
                   checkingInjectedWeb3Ref, pendingStatus, extensionsStatusRef,
                   injectCounter, probe, probeCount, setCheckingCalls,
                   unhandledRejection, lastCall, lateSettled, expectedStatus,
                   snapshotVars>>

\* Mutant: the effect returns no cleanup, so teardown leaves the timer running.
UnmountNoCleanup ==
    /\ lifecycle = "mounted"
    /\ lifecycle' = "unmounted"
    /\ UNCHANGED <<polkaGateSnapEnabled, checkingInjectedWeb3, pendingChecking,
                   checkingInjectedWeb3Ref, intervalInitialisedRef, extensionsStatus,
                   pendingStatus, extensionsStatusRef, ctxExtensionsStatus,
                   injectCounter, activeTimers, timersStarted, injectedWeb3Interval,
                   probe, probeCount, setCheckingCalls, unhandledRejection, lastCall,
                   lateSettled, refIsExposed, expectedStatus, snapshotVars>>

\* The component is torn down: the last render's cleanup runs.
Unmount ==
    /\ lifecycle = "mounted"
    /\ lifecycle' = "unmounted"
    /\ activeTimers' = clearInterval(injectedWeb3Interval, activeTimers)
    /\ UNCHANGED <<polkaGateSnapEnabled, checkingInjectedWeb3, pendingChecking,
                   checkingInjectedWeb3Ref, intervalInitialisedRef, extensionsStatus,
                   pendingStatus, extensionsStatusRef, ctxExtensionsStatus,
                   injectCounter, timersStarted, injectedWeb3Interval, probe,
                   probeCount, setCheckingCalls, unhandledRejection, lastCall,
                   lateSettled, refIsExposed, expectedStatus, snapshotVars>>

----------------------------------------------------------------------------
(* The consumer's calls through the context value of the latest render *)

Call(op, id, arg, result) ==
    [op |-> op, id |-> id, arg |-> arg, result |-> result,
     before |-> extensionsStatusRef]

trackerVars == <<lifecycle, polkaGateSnapEnabled, checkingInjectedWeb3,
                 pendingChecking, checkingInjectedWeb3Ref, intervalInitialisedRef,
                 extensionsStatus, ctxExtensionsStatus, injectCounter, activeTimers,
                 timersStarted, injectedWeb3Interval, probe, probeCount,
                 setCheckingCalls, unhandledRejection, lateSettled>>

\* What a status operation does besides computing the new mapping: the object it
\* installs is a new one, which no render has exposed and no consumer holds, and the
\* objects created before keep their contents.
InstallsFreshObject ==
    /\ refIsExposed' = FALSE
    /\ snapshotIsRef' = FALSE
    /\ UNCHANGED <<snapshotTaken, snapshot>>

\* Mutant: the new mapping is built from the render's state, not from the ref.
setExtensionStatusFromState(id, status) ==
    /\ lifecycle # "unmounted"
    /\ LET value == Put(extensionsStatus, id, status)
       IN  /\ pendingStatus' = setState(value, pendingStatus)
           /\ extensionsStatusRef' = value
    /\ lastCall' = Call("setExtensionStatus", id, status, "")
    /\ expectedStatus' = Put(expectedStatus, id, status)
    /\ InstallsFreshObject
    /\ UNCHANGED trackerVars

\* Mutant: only the state setter is called, the ref keeps the old mapping.
setExtensionStatusNoRefWrite(id, status) ==
    /\ lifecycle # "unmounted"
    /\ pendingStatus' = setState(Put(extensionsStatusRef, id, status), pendingStatus)
    /\ lastCall' = Call("setExtensionStatus", id, status, "")
    /\ expectedStatus' = Put(expectedStatus, id, status)
    /\ UNCHANGED <<trackerVars, extensionsStatusRef, refIsExposed, snapshotVars>>

\* setStateWithRef({ ...extensionsStatusRef.current, [id]: status },
\*                 setExtensionsStatus, extensionsStatusRef)
setExtensionStatus(id, status) ==
    /\ lifecycle # "unmounted"
    /\ LET value == Put(extensionsStatusRef, id, status)
       IN  /\ pendingStatus' = setState(value, pendingStatus)
           /\ extensionsStatusRef' = value
    /\ lastCall' = Call("setExtensionStatus", id, status, "")
    /\ expectedStatus' = Put(expectedStatus, id, status)
    /\ InstallsFreshObject
    /\ UNCHANGED trackerVars

\* Mutant: the copy is taken from the render's state, not from the ref.
removeExtensionStatusFromState(id) ==
    /\ lifecycle # "unmounted"
    /\ LET value == Delete(extensionsStatus, id)
       IN  /\ pendingStatus' = setState(value, pendingStatus)
           /\ extensionsStatusRef' = value
    /\ lastCall' = Call("removeExtensionStatus", id, "", "")
    /\ expectedStatus' = Delete(expectedStatus, id)
    /\ InstallsFreshObject
    /\ UNCHANGED trackerVars

\* Mutant: the key is deleted from extensionsStatusRef.current itself, so every
\* holder of that object sees it change.
removeExtensionStatusInPlace(id) ==
    /\ lifecycle # "unmounted"
    /\ LET value == Delete(extensionsStatusRef, id)
       IN  /\ pendingStatus' = setState(value, pendingStatus)
           /\ extensionsStatusRef' = value
           /\ extensionsStatus' = IF refIsExposed THEN value ELSE extensionsStatus
           /\ ctxExtensionsStatus' =
                    IF refIsExposed THEN value ELSE ctxExtensionsStatus
           /\ snapshot' = IF snapshotIsRef THEN value ELSE snapshot
    /\ lastCall' = Call("removeExtensionStatus", id, "", "")
    /\ expectedStatus' = Delete(expectedStatus, id)
    /\ UNCHANGED <<lifecycle, polkaGateSnapEnabled, checkingInjectedWeb3,
                   pendingChecking, checkingInjectedWeb3Ref, intervalInitialisedRef,
                   injectCounter, activeTimers, timersStarted, injectedWeb3Interval,
                   probe, probeCount, setCheckingCalls, unhandledRejection,
                   lateSettled, refIsExposed, snapshotTaken, snapshotIsRef>>

\* const newExtensionsStatus = { ...extensionsStatusRef.current };
\* delete newExtensionsStatus[id];
\* setStateWithRef(newExtensionsStatus, setExtensionsStatus, extensionsStatusRef)
removeExtensionStatus(id) ==
    /\ lifecycle # "unmounted"
    /\ LET value == Delete(extensionsStatusRef, id)
       IN  /\ pendingStatus' = setState(value, pendingStatus)
           /\ extensionsStatusRef' = value
    /\ lastCall' = Call("removeExtensionStatus", id, "", "")
    /\ expectedStatus' = Delete(expectedStatus, id)
    /\ InstallsFreshObject
    /\ UNCHANGED trackerVars

CallExtensionInstalled(id) ==
    /\ lifecycle # "unmounted"
    /\ lastCall' = Call("extensionInstalled", id, "", Bool(extensionInstalled(id)))
    /\ UNCHANGED <<trackerVars, pendingStatus, extensionsStatusRef, refIsExposed,
                   expectedStatus, snapshotVars>>

CallExtensionCanConnect(id) ==
    /\ lifecycle # "unmounted"
    /\ lastCall' = Call("extensionCanConnect", id, "", Bool(extensionCanConnect(id)))
    /\ UNCHANGED <<trackerVars, pendingStatus, extensionsStatusRef, refIsExposed,
                   expectedStatus, snapshotVars>>

CallExtensionHasFeature(id, feature) ==
    /\ lifecycle # "unmounted"
    /\ lastCall' = Call("extensionHasFeature", id, feature,
                        extensionHasFeature(id, feature))
    /\ UNCHANGED <<trackerVars, pendingStatus, extensionsStatusRef, refIsExposed,
                   expectedStatus, snapshotVars>>

\* A consumer keeps the extensionsStatus object of the latest context value.
TakeSnapshot ==
    /\ lifecycle # "unmounted"
    /\ ~snapshotTaken
    /\ snapshotTaken' = TRUE
    /\ snapshot' = ctxExtensionsStatus
    /\ snapshotIsRef' = refIsExposed
    /\ UNCHANGED <<trackerVars, pendingStatus, extensionsStatusRef, lastCall,
                   refIsExposed, expectedStatus>>

----------------------------------------------------------------------------

Next ==
    \/ Mount
    \/ \E t \in activeTimers : Tick(t)
    \/ \E outcome \in ProbeOutcomes : SnapProbeSettles(outcome)
    \/ ProbeSettlesLate
    \/ Rerender
    \/ Unmount
    \/ \E id \in StatusIds, status \in Statuses : setExtensionStatus(id, status)
    \/ \E id \in StatusIds : removeExtensionStatus(id)
    \/ \E id \in StatusIds : CallExtensionInstalled(id)
    \/ \E id \in StatusIds : CallExtensionCanConnect(id)
    \/ \E id \in FeatureIds, feature \in Features : CallExtensionHasFeature(id, feature)

Spec == Init /\ [][Next]_vars

\* The tracker with a consumer that keeps a snapshot of the mapping and makes
\* status operations.
NextObserved ==
    \/ Mount
    \/ \E t \in activeTimers : Tick(t)
    \/ \E outcome \in ProbeOutcomes : SnapProbeSettles(outcome)
    \/ ProbeSettlesLate
    \/ Rerender
    \/ Unmount
    \/ \E id \in StatusIds, status \in Statuses : setExtensionStatus(id, status)
    \/ \E id \in StatusIds : removeExtensionStatus(id)
    \/ TakeSnapshot

SnapshotSpec == Init /\ [][NextObserved]_vars

\* The timer fires while it exists, the race of the probe against its timeout ends,
\* the first effect runs, and React renders a queued update.
FairSpec ==
    /\ Spec
    /\ WF_vars(Mount)
    /\ WF_vars(\E t \in activeTimers : Tick(t))
    /\ WF_vars(\E outcome \in ProbeOutcomes : SnapProbeSettles(outcome))
    /\ WF_vars(Rerender)

----------------------------------------------------------------------------
(* Claims *)

\* C1: a tracker that is never torn down eventually has checkingInjectedWeb3 = false,
\* under fair firing of the timer, the probe's settling and React's rendering,
\* whatever status operations and re-renders happen during the polling window.
C1_EventuallyReady ==
    <>(lifecycle = "unmounted" \/ ~checkingInjectedWeb3)


\* C2: checkingInjectedWeb3 is true initially, setStateWithRef(false, ...) is called at
\* most once, and once the flag (the ref, the queued state, the rendered state) is
\* false no later step makes it true.
C2_FalseOnceAndForAll ==
    /\ (checkingInjectedWeb3 = TRUE /\ pendingChecking = TRUE
            /\ checkingInjectedWeb3Ref = TRUE /\ setCheckingCalls = 0)
    /\ [][/\ setCheckingCalls' <= 1
          /\ (~checkingInjectedWeb3Ref => ~checkingInjectedWeb3Ref')
          /\ (~pendingChecking => ~pendingChecking')
          /\ (~checkingInjectedWeb3 => ~checkingInjectedWeb3')]_vars

\* C2 witness: Ready was rendered, and status operations and a re-render followed.
C2_Witness ==
    /\ ~checkingInjectedWeb3
    /\ setCheckingCalls = 1
    /\ lastCall.op = "removeExtensionStatus"
    /\ lastCall.before # extensionsStatusRef
    /\ extensionsStatus = extensionsStatusRef

C4_NoProbeWhenDisabled ==
    ~polkaGateSnapEnabled =>
        /\ probeCount = 0
        /\ probe = "none"
        /\ (injectCounter = totalChecks <=> ~checkingInjectedWeb3Ref)
        /\ (injectCounter = totalChecks <=> ~pendingChecking)
        /\ (~checkingInjectedWeb3 => injectCounter = totalChecks)

\* C4 witness: the snap is disabled, ten ticks fired and Ready was rendered.
C4_Witness ==
    /\ ~polkaGateSnapEnabled
    /\ injectCounter = totalChecks
    /\ ~checkingInjectedWeb3

\* C5: with the snap enabled at most one probe is issued, and it is issued in the
\* 10th tick; while it is pending (and ever after) no timer exists and the counter
\* does not advance; and the flag is cleared only once the probe has ended.
C5_OneProbeAfterTimer ==
    /\ [](polkaGateSnapEnabled =>
            /\ probeCount <= 1
            /\ (probeCount = 1 <=> injectCounter = totalChecks)
            /\ (probe # "none" <=> probeCount = 1)
            /\ (probe # "none" => activeTimers = {})
            /\ (~checkingInjectedWeb3Ref => probe \in ProbeOutcomes))
    /\ [][probe # "none" => injectCounter' = injectCounter]_vars

\* C5 witness: the probe is pending after the 10th tick, the timer is gone.
C5_Witness ==
    /\ polkaGateSnapEnabled
    /\ probe = "pending"
    /\ probeCount = 1
    /\ injectCounter = totalChecks
    /\ activeTimers = {}
    /\ checkingInjectedWeb3Ref

\* C6: whenever the consumer calls a query, extensionInstalled(id) is true iff the
\* status mapping (the one setExtensionStatus has just updated) holds a record for
\* id, and extensionCanConnect(id) is true iff it holds one that is not "connected".
C6_QueriesAgreeWithMapping ==
    /\ (lastCall.op = "extensionInstalled" =>
            lastCall.result = Bool(lastCall.id \in DOMAIN lastCall.before))
    /\ (lastCall.op = "extensionCanConnect" =>
            lastCall.result = Bool(/\ lastCall.id \in DOMAIN lastCall.before
                                   /\ lastCall.before[lastCall.id] # "connected"))

\* C7: for an id that is no key of the registry, extensionHasFeature returns false.
C7_UnknownIdReturnsFalse ==
    (lastCall.op = "extensionHasFeature" /\ lastCall.id \notin RegistryIds)
        => lastCall.result = "false"

\* The descriptors the claim names.
C8_WildcardIds ==
    {"enkrypt", "fearless-wallet", "polkagate", "subwallet-js", "talisman",
     "polkadot-js", "nova-wallet"}

C8_EmptyListIds == {"ledger", "polkadotvault", "walletconnect"}

\* C8: for an id of the registry, extensionHasFeature is true for every feature on
\* the wildcard descriptors, false for every feature on ledger, polkadotvault and
\* walletconnect, and on metamask-polkadot-snap true exactly for getAccounts and
\* signer, in every state of the tracker.
C8_FeatureTable ==
    /\ RegistryIds = C8_WildcardIds \cup C8_EmptyListIds \cup {"metamask-polkadot-snap"}
    /\ (lastCall.op = "extensionHasFeature" /\ lastCall.id \in RegistryIds) =>
            lastCall.result =
                Bool(\/ lastCall.id \in C8_WildcardIds
                     \/ /\ lastCall.id = "metamask-polkadot-snap"
                        /\ lastCall.arg \in {"getAccounts", "signer"})

\* C8 witness: a wildcard descriptor was asked for a feature while the mapping was
\* not empty and the detection was over.
C8_Witness ==
    /\ lastCall.op = "extensionHasFeature"
    /\ lastCall.id = "talisman"
    /\ lastCall.arg = "subscribeAccounts"
    /\ lastCall.result = "true"
    /\ extensionsStatusRef # EmptyMap
    /\ ~checkingInjectedWeb3

\* C9: after setExtensionStatus(id, status) the mapping holds status for id, every
\* other id's record is as before, whether or not id is a key of the registry, and
\* the same mapping is queued for the next render.
C9_SetIsUpsert ==
    lastCall.op = "setExtensionStatus" =>
        /\ DOMAIN extensionsStatusRef = (DOMAIN lastCall.before) \cup {lastCall.id}
        /\ extensionsStatusRef[lastCall.id] = lastCall.arg
        /\ \A k \in (DOMAIN lastCall.before) \ {lastCall.id} :
                extensionsStatusRef[k] = lastCall.before[k]
        /\ pendingStatus = extensionsStatusRef

\* C9 witness: setExtensionStatus(talisman, "connected") on the mapping
\* {talisman: "installed"} left exactly one entry, talisman -> "connected".
C9_Witness ==
    /\ lastCall.op = "setExtensionStatus"
    /\ lastCall.id = "talisman"
    /\ lastCall.arg = "connected"
    /\ lastCall.before = Put(EmptyMap, "talisman", "installed")
    /\ extensionsStatusRef = Put(EmptyMap, "talisman", "connected")
    /\ Cardinality(DOMAIN extensionsStatusRef) = 1

\* C10: after removeExtensionStatus(id) the mapping has no record for id and every
\* other id's record is as before; if there was none for id the mapping's contents
\* are as before, and a second removeExtensionStatus(id) would change nothing.
C10_RemoveDeletesOnlyId ==
    lastCall.op = "removeExtensionStatus" =>
        /\ DOMAIN extensionsStatusRef = (DOMAIN lastCall.before) \ {lastCall.id}
        /\ \A k \in DOMAIN extensionsStatusRef :
                extensionsStatusRef[k] = lastCall.before[k]
        /\ (lastCall.id \notin DOMAIN lastCall.before =>
                extensionsStatusRef = lastCall.before)
        /\ pendingStatus = extensionsStatusRef

\* C10 witness: removeExtensionStatus(id) was applied to a mapping that held a
\* record for another id and none for id.
C10_Witness ==
    /\ lastCall.op = "removeExtensionStatus"
    /\ lastCall.id \notin DOMAIN lastCall.before
    /\ lastCall.before # EmptyMap
    /\ extensionsStatusRef = lastCall.before


\* C11: once the counter has reached totalChecks, and once the component is torn
\* down, no timer exists and the counter no longer advances.
C11_TimerCancelled ==
    /\ []((injectCounter = totalChecks \/ lifecycle = "unmounted") =>
            activeTimers = {})
    /\ [][(injectCounter = totalChecks \/ lifecycle = "unmounted") =>
            injectCounter' = injectCounter]_vars

\* C11 witness: the component was torn down during the polling window, after some
\* ticks and before the 10th, and the timer is gone.
C11_Witness ==
    /\ lifecycle = "unmounted"
    /\ injectCounter > 0
    /\ injectCounter < totalChecks
    /\ timersStarted = 1
    /\ activeTimers = {}

\* C12: at most one timer is ever active and setInterval is called at most once:
\* exactly when intervalInitialisedRef has been set.
C12_AtMostOneTimer ==
    /\ Cardinality(activeTimers) <= 1
    /\ timersStarted <= 1
    /\ (intervalInitialisedRef <=> timersStarted = 1)

\* C12 witness: the effect ran again on a re-render while ticks had fired, and
\* still only one setInterval call was made.
C12_Witness ==
    /\ lifecycle = "mounted"
    /\ injectedWeb3Interval = 0
    /\ injectCounter > 0
    /\ timersStarted = 1

\* Number of times handleSnapInjection was entered: it issues the probe when the
\* snap is enabled and clears the flag at once when it is not.
C15_SnapInjections ==
    IF polkaGateSnapEnabled THEN probeCount ELSE setCheckingCalls

\* C15: the counter advances by one at a time and never exceeds totalChecks; while
\* it is below totalChecks the flag is true and handleSnapInjection has not been
\* entered; handleSnapInjection is entered at most once.
C15_PollingUntilBound ==
    /\ [](/\ injectCounter <= totalChecks
          /\ C15_SnapInjections <= 1
          /\ (injectCounter < totalChecks =>
                /\ checkingInjectedWeb3 /\ pendingChecking /\ checkingInjectedWeb3Ref
                /\ C15_SnapInjections = 0
                /\ probe = "none"))
    /\ [][injectCounter' # injectCounter => injectCounter' = injectCounter + 1]_vars

\* C15 witness: nine ticks have fired, the timer is still running and the flag is
\* still true.
C15_Witness ==
    /\ injectCounter = totalChecks - 1
    /\ activeTimers # {}
    /\ checkingInjectedWeb3
    /\ lastCall.op = "setExtensionStatus"

\* A step that is a setExtensionStatus or removeExtensionStatus call.
StatusCallStep ==
    /\ lastCall' # lastCall
    /\ lastCall'.op \in {"setExtensionStatus", "removeExtensionStatus"}

\* C13: every setExtensionStatus/removeExtensionStatus installs a fresh mapping
\* and mutates no object exposed before: a snapshot a consumer took keeps its
\* contents through every later step, the mapping the last render exposed is
\* left as it was by the call, the new ref object is neither the exposed one
\* nor the snapshot, and its contents are exactly the old contents with the
\* one key set or deleted (nothing in between is ever visible).
C13_CopyOnWrite ==
    [][/\ (snapshotTaken => (snapshotTaken' /\ snapshot' = snapshot))
       /\ (StatusCallStep =>
              /\ ctxExtensionsStatus' = ctxExtensionsStatus
              /\ extensionsStatus' = extensionsStatus
              /\ refIsExposed' = FALSE
              /\ snapshotIsRef' = FALSE
              /\ extensionsStatusRef' =
                     IF lastCall'.op = "setExtensionStatus"
                     THEN Put(extensionsStatusRef, lastCall'.id, lastCall'.arg)
                     ELSE Delete(extensionsStatusRef, lastCall'.id))]_vars

\* A snapshot with an entry that a later removeExtensionStatus has deleted from
\* the current mapping.
C13_Witness ==
    /\ snapshotTaken
    /\ lastCall.op = "removeExtensionStatus"
    /\ lastCall.id \in DOMAIN snapshot
    /\ lastCall.id \notin DOMAIN extensionsStatusRef
    /\ snapshot = lastCall.before

\* C14: the status mapping changes only through setExtensionStatus and
\* removeExtensionStatus: on every other step (tick, transition to ready, the
\* probe settling in any way, a late result after the timeout, mount, unmount)
\* the ref and the queued state are unchanged, and the rendered mapping changes
\* only by a render catching up with the ref.  Hence with polkaGateSnapEnabled
\* false and no operation called, after 10 ticks the checking flag (ref and
\* queued state, which every later render shows) is false, no probe was
\* started, and every view of the mapping is empty.
C14_MappingFrame ==
    /\ [][/\ ((extensionsStatusRef' # extensionsStatusRef
                 \/ pendingStatus' # pendingStatus) => StatusCallStep)
           /\ ((extensionsStatus' # extensionsStatus
                 \/ ctxExtensionsStatus' # ctxExtensionsStatus) =>
                  /\ extensionsStatusRef' = extensionsStatusRef
                  /\ extensionsStatus' = extensionsStatusRef
                  /\ ctxExtensionsStatus' = extensionsStatusRef)]_vars
    /\ []((/\ polkaGateSnapEnabled = FALSE
           /\ lastCall = NoCall
           /\ injectCounter = totalChecks) =>
              /\ checkingInjectedWeb3Ref = FALSE
              /\ pendingChecking = FALSE
              /\ probe = "none"
              /\ extensionsStatusRef = EmptyMap
              /\ pendingStatus = EmptyMap
              /\ extensionsStatus = EmptyMap
              /\ ctxExtensionsStatus = EmptyMap)

\* The probe result arrived after the timeout while the mapping held an entry.
C14_Witness ==
    /\ lateSettled
    /\ probe = "timeout"
    /\ checkingInjectedWeb3 = FALSE
    /\ extensionsStatusRef # EmptyMap
    /\ "metamask-polkadot-snap" \notin DOMAIN extensionsStatusRef

\* C16: no update is lost between renders: the ref always holds the result of
\* applying every setExtensionStatus/removeExtensionStatus call so far in call
\* order, the queued React state is that same mapping, and once a render has
\* happened after the last call the rendered state and the context value
\* equal the ref.
C16_NoLostUpdates ==
    /\ extensionsStatusRef = expectedStatus
    /\ pendingStatus = extensionsStatusRef
    /\ (refIsExposed =>
          /\ extensionsStatus = extensionsStatusRef
          /\ ctxExtensionsStatus = extensionsStatusRef)

\* Two calls back to back with no render in between, both kept.
C16_Witness ==
    /\ lifecycle = "mounted"
    /\ extensionsStatus = EmptyMap
    /\ refIsExposed = FALSE
    /\ Cardinality(DOMAIN extensionsStatusRef) = 2
    /\ lastCall.op = "setExtensionStatus"
    /\ lastCall.before # EmptyMap

====
